---- MODULE Spec2Model ----
(***************************************************************************)
(* Minesweeper engine of src/src/Minesweeper.py (class Minesweeper).       *)
(* One state variable per field of the object; one action per public       *)
(* method (in the deep sessions, one per call of the recursive backend).   *)
(* Tensors are functions from cells <<i, j>> (0-based) to integers; the    *)
(* float tensors of the source only ever hold small integers, so integer   *)
(* arithmetic is exact.                                                    *)
(***************************************************************************)
EXTENDS Integers, Sequences, FiniteSets, TLC

VARIABLES
    x, y, num_tiles,            \* board shape (self.x, self.y, self.num_tiles)
    num_mines, MINE_RATE,       \* mine count and the stored rate <<num, den>>
    over, lost, play_initiated, \* status flags
    update_list,                \* sequence of cells touched by the last call
    discovery, num_discovered,  \* discovery mask and its counter
    flags, num_flags,           \* flag mask and its counter
    mines, numbers,             \* mine mask and adjacency numbers
    board, derivative,          \* display codes and the pending delta
    op, ret,                    \* the last public call and its outcome
    stack                       \* the __discover_tile_backend calls in progress

engine == <<x, y, num_tiles, num_mines, MINE_RATE, over, lost, play_initiated,
            update_list, discovery, num_discovered, flags, num_flags, mines,
            numbers, board, derivative>>

vars == <<x, y, num_tiles, num_mines, MINE_RATE, over, lost, play_initiated,
          update_list, discovery, num_discovered, flags, num_flags, mines,
          numbers, board, derivative, op, ret, stack>>

(***************************************************************************)
(* Bounds of the model.                                                    *)
(***************************************************************************)
\* boards are at most MaxX cells wide and MaxY cells high, no higher than
\* wide, with at most MaxTiles cells
MaxX == 3
MaxY == 2
MaxTiles == 6
\* the player keeps at most MaxFlags flags on the board
MaxFlags == 1

(***************************************************************************)
(* Plain helpers.                                                          *)
(***************************************************************************)
Cells(w, h) == (0 .. w - 1) \X (0 .. h - 1)

Zeros(w, h) == [c \in Cells(w, h) |-> 0]

RECURSIVE SumSeq(_, _)
\* sum of f over the cells of the sequence q (with repetitions)
SumSeq(f, q) == IF q = <<>> THEN 0 ELSE f[Head(q)] + SumSeq(f, Tail(q))

\* The record of all fields of the object.
Self ==
    [x |-> x, y |-> y, num_tiles |-> num_tiles, num_mines |-> num_mines,
     MINE_RATE |-> MINE_RATE, over |-> over, lost |-> lost,
     play_initiated |-> play_initiated, update_list |-> update_list,
     discovery |-> discovery, num_discovered |-> num_discovered,
     flags |-> flags, num_flags |-> num_flags, mines |-> mines,
     numbers |-> numbers, board |-> board, derivative |-> derivative]

\* The fields of the object after the call are those of the record s.
Assign(s) ==
    /\ x' = s.x
    /\ y' = s.y
    /\ num_tiles' = s.num_tiles
    /\ num_mines' = s.num_mines
    /\ MINE_RATE' = s.MINE_RATE
    /\ over' = s.over
    /\ lost' = s.lost
    /\ play_initiated' = s.play_initiated
    /\ update_list' = s.update_list
    /\ discovery' = s.discovery
    /\ num_discovered' = s.num_discovered
    /\ flags' = s.flags
    /\ num_flags' = s.num_flags
    /\ mines' = s.mines
    /\ numbers' = s.numbers
    /\ board' = s.board
    /\ derivative' = s.derivative

\* a neighbourhood without the diagonals
get_legal_neighbors_no_diagonal(w, h, c) ==
    LET cand == <<<<c[1], c[2] - 1>>, <<c[1] - 1, c[2]>>,
                  <<c[1] + 1, c[2]>>, <<c[1], c[2] + 1>>>>
        legal(d) == ~ (\/ (d[1] < 0 \/ d[1] >= w)
                       \/ (d[2] < 0 \/ d[2] >= h))
    IN  SelectSeq(cand, legal)

(***************************************************************************)
(* __get_legal_neighbors: the 3x3 block around c, rows (y offset) outer,   *)
(* columns (x offset) inner, without c itself and without cells off the    *)
(* board.                                                                  *)
(***************************************************************************)
offsets == <<-1, 0, 1>>

get_legal_neighbors(w, h, c) ==
    LET cand == [k \in 1 .. 9 |->
                    <<c[1] + offsets[((k - 1) % 3) + 1],
                      c[2] + offsets[((k - 1) \div 3) + 1]>>]
        legal(d) == ~ (\/ (d[1] < 0 \/ d[1] >= w)
                       \/ (d[2] < 0 \/ d[2] >= h)
                       \/ d = c)
    IN  SelectSeq(cand, legal)

Range(q) == {q[k] : k \in 1 .. Len(q)}

(***************************************************************************)
(* int(num_tiles * MINE_RATE) for a rate stored as the double nearest to   *)
(* num/den.  The product of the two roundings falls just below the exact   *)
(* integer for the pairs <<tiles, mines>> of FloatLoss (all such pairs     *)
(* with tiles <= 38 when the rate is mines / tiles); int() then truncates  *)
(* to one less.                                                            *)
(***************************************************************************)
FloatLoss == {<<22, 15>>, <<23, 13>>, <<26, 15>>}

RateMines(tiles, rate) ==
    LET exact == (tiles * rate[1]) \div rate[2]
    IN  IF rate[2] = tiles /\ <<tiles, rate[1]>> \in FloatLoss
        THEN exact - 1 ELSE exact

\* a placement that flips num_mines cells on both branches
populate_mine_mask_same_count(w, h, n) ==
    LET tiles == w * h
        value_to_place == IF 2 * n > tiles THEN 0 ELSE 1
    IN  {[c \in Cells(w, h) |-> IF c \in S THEN value_to_place
                                          ELSE 1 - value_to_place] :
            S \in {T \in SUBSET Cells(w, h) : Cardinality(T) = n}}

(***************************************************************************)
(* __populate_mine_mask: the masks the placement loop can end with.  The   *)
(* loop starts from a uniform mask and flips num_places_to_modify distinct *)
(* cells to value_to_place (a draw on a cell already flipped is rejected). *)
(***************************************************************************)
populate_mine_mask(w, h, n) ==
    LET tiles == w * h
        more_mines == 2 * n > tiles
        num_places_to_modify == IF more_mines THEN tiles - n ELSE n
        value_to_place == IF more_mines THEN 0 ELSE 1
    IN  {[c \in Cells(w, h) |-> IF c \in S THEN value_to_place
                                          ELSE 1 - value_to_place] :
            S \in {T \in SUBSET Cells(w, h) :
                       Cardinality(T) = num_places_to_modify}}

(***************************************************************************)
(* __fill_number_mask: for a cell without a mine, the sum of the mine mask *)
(* over its legal neighbours; 0 (the initial value) for a mine cell.       *)
(***************************************************************************)
fill_number_mask(w, h, m) ==
    [c \in Cells(w, h) |->
        IF m[c] = 1 THEN 0 ELSE SumSeq(m, get_legal_neighbors(w, h, c))]

(***************************************************************************)
(* __build_game_board: -1 where flagged, -2 where not, then the number     *)
(* where discovered.                                                       *)
(***************************************************************************)
build_game_board(w, h, fl, disc, num) ==
    [c \in Cells(w, h) |->
        IF disc[c] = 1 THEN num[c]
        ELSE IF fl[c] = 0 THEN -2 ELSE -1 * fl[c]]

(***************************************************************************)
(* initialize_game_state followed by __build_game_state_tensors, for legal *)
(* arguments, with the mine mask m that __populate_mine_mask produced.     *)
(***************************************************************************)
build_game_state_tensors(w, h, n, rate, m) ==
    LET num == fill_number_mask(w, h, m)
    IN  [x |-> w, y |-> h, num_tiles |-> w * h, num_mines |-> n,
         MINE_RATE |-> rate, over |-> FALSE, lost |-> FALSE,
         play_initiated |-> FALSE, update_list |-> <<>>,
         discovery |-> Zeros(w, h), num_discovered |-> 0,
         flags |-> Zeros(w, h), num_flags |-> 0,
         mines |-> m, numbers |-> num,
         board |-> build_game_board(w, h, Zeros(w, h), Zeros(w, h), num),
         derivative |-> Zeros(w, h)]

\* initialize_game_state(w, h, mines = n): the rate is derived from n.
initialize_game_state(w, h, n) ==
    {build_game_state_tensors(w, h, n, <<n, w * h>>, m) :
        m \in populate_mine_mask(w, h, n)}

\* initialize_game_state(w, h, mine_rate = rate): the count is derived.
initialize_from_rate(w, h, rate) ==
    LET n == RateMines(w * h, rate)
    IN  {build_game_state_tensors(w, h, n, rate, m) :
            m \in populate_mine_mask(w, h, n)}

(***************************************************************************)
(* initialize_game_state(w, h, mines = n) when arg is <<"mines", n>> and   *)
(* initialize_game_state(w, h, mine_rate = r) when arg is <<"rate", r>>,   *)
(* called on the object s, with its validation: the outcomes [st, result], *)
(* result "None" for a call that returns and "ValueError" for one that     *)
(* raises.  The status flags are reset before the shape is checked (lines  *)
(* 50-54), the shape, the count and the rate are stored before the count   *)
(* is checked (lines 64-81).                                               *)
(***************************************************************************)
\* a count check that also rejects a board full of mines
initialize_game_state_checked_strict(s, w, h, arg) ==
    LET s1 == [s EXCEPT !.over = FALSE, !.lost = FALSE,
                        !.play_initiated = FALSE]
    IN  IF w <= 0 \/ h <= 0
        THEN {[st |-> s1, result |-> "ValueError"]}
        ELSE
        LET tiles == w * h
            n == IF arg[1] = "mines" THEN arg[2] ELSE RateMines(tiles, arg[2])
            rate == IF arg[1] = "mines" THEN <<arg[2], tiles>> ELSE arg[2]
            s2 == [s1 EXCEPT !.x = w, !.y = h, !.num_tiles = tiles,
                             !.num_mines = n, !.MINE_RATE = rate]
        IN  IF n >= tiles
            THEN {[st |-> s2, result |-> "ValueError"]}
            ELSE {[st |-> build_game_state_tensors(w, h, n, rate, m),
                   result |-> "None"] :
                     m \in populate_mine_mask(w, h, n)}

initialize_game_state_checked(s, w, h, arg) ==
    LET s1 == [s EXCEPT !.over = FALSE, !.lost = FALSE,
                        !.play_initiated = FALSE]
    IN  IF w <= 0 \/ h <= 0
        THEN {[st |-> s1, result |-> "ValueError"]}
        ELSE
        LET tiles == w * h
            n == IF arg[1] = "mines" THEN arg[2] ELSE RateMines(tiles, arg[2])
            rate == IF arg[1] = "mines" THEN <<arg[2], tiles>> ELSE arg[2]
            s2 == [s1 EXCEPT !.x = w, !.y = h, !.num_tiles = tiles,
                             !.num_mines = n, !.MINE_RATE = rate]
        IN  IF n > tiles
            THEN {[st |-> s2, result |-> "ValueError"]}
            ELSE {[st |-> build_game_state_tensors(w, h, n, rate, m),
                   result |-> "None"] :
                     m \in populate_mine_mask(w, h, n)}

\* a restart that keeps the flags of the old game
reinitialize_game_state_keeps_flags(s) ==
    {[e EXCEPT !.flags = s.flags, !.num_flags = s.num_flags] :
        e \in initialize_from_rate(s.x, s.y, s.MINE_RATE)}

\* reinitialize_game_state: initialize again from the stored shape and rate.
reinitialize_game_state(s) == initialize_from_rate(s.x, s.y, s.MINE_RATE)

\* an update that leaves the mines of a won game as they are
update_game_board_no_win_marks(s) ==
    LET won == s.num_tiles - s.num_discovered = s.num_mines
    IN  [s EXCEPT !.board = [c \in Cells(s.x, s.y) |->
                                IF s.lost /\ s.mines[c] = 0 /\ s.flags[c] = 1
                                THEN -5 ELSE s.board[c] + s.derivative[c]],
                  !.derivative = Zeros(s.x, s.y),
                  !.over = IF won THEN TRUE ELSE @]

(***************************************************************************)
(* update_game_board: add the derivative, clear it, then the win test and  *)
(* the incorrect-flag marking.                                             *)
(***************************************************************************)
update_game_board(s) ==
    LET C == Cells(s.x, s.y)
        b1 == [c \in C |-> s.board[c] + s.derivative[c]]
        won == s.num_tiles - s.num_discovered = s.num_mines
        b2 == IF won THEN [c \in C |-> IF s.mines[c] = 1 THEN -1 ELSE b1[c]]
              ELSE b1
        b3 == IF s.lost
              THEN [c \in C |-> IF s.mines[c] = 0 /\ s.flags[c] = 1
                                THEN -5 ELSE b2[c]]
              ELSE b2
    IN  [s EXCEPT !.board = b3,
                  !.derivative = Zeros(s.x, s.y),
                  !.over = IF won THEN TRUE ELSE @]

\* a call that keeps the list of the call before it
clear_update_list_never(s) == s

\* clear_update_list
clear_update_list(s) == [s EXCEPT !.update_list = <<>>]

\* a flag toggle that does not look at the discovery mask
flag_tile_backend_any_cell(s, c) ==
    [st |-> [s EXCEPT !.flags[c] = 1 - @,
                      !.derivative[c] = IF s.flags[c] = 1 THEN @ - 1 ELSE @ + 1,
                      !.num_flags = IF s.flags[c] = 1 THEN @ - 1 ELSE @ + 1,
                      !.update_list = Append(@, c)],
     result |-> TRUE]

\* a flag toggle that leaves the derivative alone
flag_tile_backend_no_derivative(s, c) ==
    IF s.discovery[c] = 1 THEN [st |-> s, result |-> FALSE]
    ELSE [st |-> [s EXCEPT !.flags[c] = 1 - @,
                           !.num_flags = IF s.flags[c] = 1 THEN @ - 1 ELSE @ + 1,
                           !.update_list = Append(@, c)],
          result |-> TRUE]

(***************************************************************************)
(* __flag_tile_backend                                                     *)
(***************************************************************************)
flag_tile_backend(s, c) ==
    IF s.discovery[c] = 1 THEN [st |-> s, result |-> FALSE]
    ELSE IF s.flags[c] = 1
    THEN [st |-> [s EXCEPT !.flags[c] = 0,
                           !.derivative[c] = @ - 1,
                           !.num_flags = @ - 1,
                           !.update_list = Append(@, c)],
          result |-> TRUE]
    ELSE [st |-> [s EXCEPT !.flags[c] = 1,
                           !.derivative[c] = @ + 1,
                           !.num_flags = @ + 1,
                           !.update_list = Append(@, c)],
          result |-> TRUE]

Bool(b) == IF b THEN "True" ELSE "False"

(***************************************************************************)
(* The state after construction and a first initialize_game_state call.    *)
(***************************************************************************)
Shapes ==
    {s \in (1 .. MaxX) \X (1 .. MaxY) : s[2] <= s[1] /\ s[1] * s[2] <= MaxTiles}

Init ==
    \E s \in Shapes :
        \E e \in UNION {initialize_game_state(s[1], s[2], n) :
                            n \in 0 .. s[1] * s[2]} :
            /\ x = e.x /\ y = e.y /\ num_tiles = e.num_tiles
            /\ num_mines = e.num_mines /\ MINE_RATE = e.MINE_RATE
            /\ over = e.over /\ lost = e.lost
            /\ play_initiated = e.play_initiated
            /\ update_list = e.update_list
            /\ discovery = e.discovery /\ num_discovered = e.num_discovered
            /\ flags = e.flags /\ num_flags = e.num_flags
            /\ mines = e.mines /\ numbers = e.numbers
            /\ board = e.board /\ derivative = e.derivative
            /\ op = "initialize_game_state" /\ ret = "None"
            /\ stack = <<>>

\* The process is alive: no exception has escaped a call.
Running == ret \notin {"RecursionError", "ValueError"}

(***************************************************************************)
(* __discover_tile_backend once the first-move test has let the call       *)
(* through (DiscoverTile resolves the regenerate-and-retry branch before   *)
(* it applies this operator).  The recursion is the source's: a cell with  *)
(* number 0 calls the backend on each legal neighbour in order, and the    *)
(* counter and update_list are written after the neighbours return.        *)
(***************************************************************************)
\* a first-move test that looks at the mine only
first_move_unsafe_mine_only(s, c) == ~ s.play_initiated /\ s.mines[c] = 1

\* a first-move test that is made on every move
first_move_unsafe_any_time(s, c) == ~ (s.numbers[c] = 0) \/ s.mines[c] = 1

\* the first move has to regenerate: the target has a number or a mine
first_move_unsafe(s, c) ==
    ~ s.play_initiated /\ (~ (s.numbers[c] = 0) \/ s.mines[c] = 1)

\* an exposure that forgets the flags: flagged mines are exposed too
expose_mines_all(s, c) ==
    [s EXCEPT !.over = TRUE,
              !.lost = TRUE,
              !.derivative =
                  [d \in Cells(s.x, s.y) |->
                      s.derivative[d] - s.mines[d] - (IF d = c THEN 1 ELSE 0)]]

\* lines 394-404: the game is lost, every mine without a flag is exposed
\* (-1 on its derivative) and the target gets one more -1
expose_mines(s, c) ==
    [s EXCEPT !.over = TRUE,
              !.lost = TRUE,
              !.derivative =
                  [d \in Cells(s.x, s.y) |->
                      s.derivative[d]
                      - (s.mines[d] - (IF s.mines[d] = 0 THEN 0 ELSE s.flags[d]))
                      - (IF d = c THEN 1 ELSE 0)]]

\* a backend without the flag test
refuses_flagged_never(s, c) == FALSE

\* line 364: a flagged target is refused
refuses_flagged(s, c) == s.flags[c] = 1

\* line 389: a discovered target is refused
refuses_discovered(s, c) == s.discovery[c] = 1

\* a reveal that never cascades
cascades_never(s, c) == FALSE

\* a reveal that cascades from every cell it opens
cascades_always(s, c) == TRUE

\* line 410: the reveal cascades from a cell whose number is 0
cascades(s, c) == s.numbers[c] = 0

RECURSIVE discover_tile_backend(_, _), discover_each(_, _)
discover_tile_backend(s, c) ==
    IF refuses_flagged(s, c) THEN [st |-> s, result |-> FALSE]
    ELSE
    LET s1 == [s EXCEPT !.play_initiated = TRUE]
    IN  IF refuses_discovered(s1, c) THEN [st |-> s1, result |-> FALSE]
        ELSE
        LET s2 == [s1 EXCEPT !.discovery[c] = 1]
            s3 == IF s2.mines[c] = 1
                  THEN expose_mines(s2, c)
                  ELSE LET s4 == [s2 EXCEPT
                                     !.derivative[c] = @ + 2 + s2.numbers[c]]
                       IN  IF cascades(s4, c)
                           THEN discover_each(
                                    s4, get_legal_neighbors(s4.x, s4.y, c))
                           ELSE s4
        IN  [st |-> [s3 EXCEPT !.num_discovered = @ + 1,
                               !.update_list = Append(@, c)],
             result |-> TRUE]

\* for neighbor in q: self.__discover_tile_backend(neighbor) (result dropped)
discover_each(s, q) ==
    IF q = <<>> THEN s
    ELSE discover_each(discover_tile_backend(s, Head(q)).st, Tail(q))

(***************************************************************************)
(* Lines 368-382: the states in which the retry of the first move goes on  *)
(* to discover c.  Every regeneration rebuilds all tensors from the stored *)
(* shape and rate, puts the old flag tensor back (num_flags stays at the 0 *)
(* the rebuild wrote) and rebuilds the board; a later regeneration         *)
(* overwrites an earlier one completely, so the state the loop leaves is   *)
(* one regeneration whose layout makes c safe.                             *)
(***************************************************************************)
\* a regeneration that does not put the flags back
regenerate_drops_flags(s) == reinitialize_game_state(s)

regenerate(s) ==
    {[e EXCEPT !.flags = s.flags,
               !.board = build_game_board(e.x, e.y, s.flags, e.discovery,
                                          e.numbers)] :
        e \in reinitialize_game_state(s)}

first_move(s, c) ==
    IF refuses_flagged(s, c) \/ ~ first_move_unsafe(s, c) THEN {s}
    ELSE {e \in regenerate(s) : ~ first_move_unsafe(e, c)}

(***************************************************************************)
(* __test_number_tile_backend                                              *)
(***************************************************************************)
\* a match test that accepts more flags than the number
number_matches_at_least(s, c) ==
    SumSeq(s.flags, get_legal_neighbors(s.x, s.y, c)) >= s.numbers[c]

\* a match test that accepts fewer flags than the number
number_matches_at_most(s, c) ==
    SumSeq(s.flags, get_legal_neighbors(s.x, s.y, c)) <= s.numbers[c]

\* line 488: the flags around c match its number
number_matches(s, c) ==
    SumSeq(s.flags, get_legal_neighbors(s.x, s.y, c)) = s.numbers[c]

\* a chord that tries the first neighbour only
test_number_tile_backend_first(s, c) ==
    IF number_matches(s, c)
    THEN [st |-> discover_each(
                     s, SubSeq(get_legal_neighbors(s.x, s.y, c), 1, 1)),
          result |-> TRUE]
    ELSE [st |-> s, result |-> FALSE]

\* a chord that tries the neighbours before it compares the flags
test_number_tile_backend_eager(s, c) ==
    [st |-> discover_each(s, get_legal_neighbors(s.x, s.y, c)),
     result |-> number_matches(s, c)]

test_number_tile_backend(s, c) ==
    IF number_matches(s, c)
    THEN [st |-> discover_each(s, get_legal_neighbors(s.x, s.y, c)),
          result |-> TRUE]
    ELSE [st |-> s, result |-> FALSE]

(***************************************************************************)
(* The public methods, as the outcome [st, result] of a call on the object *)
(* s: st holds the fields after the call, result is "True" or "False" for  *)
(* a returned bool and "RecursionError" when the call raises.              *)
(***************************************************************************)
\* a guard that refuses the moves of a lost game only
refuses_lost_only(s) == s.lost

\* lines 331, 438, 514: a finished game refuses every move
refuses_over(s) == s.over

(***************************************************************************)
(* discover_tile(c).  A first move on an unsafe cell regenerates until the *)
(* cell is safe; every retry is one more frame of __discover_tile_backend, *)
(* so a run of unlucky (or hopeless) regenerations ends in RecursionError  *)
(* at the limit set in initialize_game_state (lines 95-98).  No caller in  *)
(* the repository catches it: the process ends and the fields are not read *)
(* again, so the model leaves them as they were when the call began.       *)
(***************************************************************************)
\* a discover_tile that reports whether the target is discovered on return
discover_tile_reports_state(s, c) ==
    IF refuses_over(s) THEN {[st |-> s, result |-> "False"]}
    ELSE
    LET s0 == clear_update_list(s)
    IN  {LET r == discover_tile_backend(e, c)
         IN  [st |-> update_game_board(r.st),
              result |-> Bool(r.st.discovery[c] = 1)] :
            e \in first_move(s0, c)}
        \cup
        (IF ~ refuses_flagged(s0, c) /\ first_move_unsafe(s0, c)
         THEN {[st |-> s, result |-> "RecursionError"]} ELSE {})

discover_tile(s, c) ==
    IF refuses_over(s) THEN {[st |-> s, result |-> "False"]}
    ELSE
    LET s0 == clear_update_list(s)
    IN  {LET r == discover_tile_backend(e, c)
         IN  [st |-> update_game_board(r.st), result |-> Bool(r.result)] :
            e \in first_move(s0, c)}
        \cup
        (IF ~ refuses_flagged(s0, c) /\ first_move_unsafe(s0, c)
         THEN {[st |-> s, result |-> "RecursionError"]} ELSE {})

\* a chord that does not ask for a discovered target
test_number_tile_any_cell(s, c) ==
    IF refuses_over(s)
    THEN [st |-> s, result |-> "False"]
    ELSE LET r == test_number_tile_backend(clear_update_list(s), c)
         IN  [st |-> update_game_board(r.st), result |-> Bool(r.result)]

(***************************************************************************)
(* test_number_tile(c)                                                     *)
(***************************************************************************)
test_number_tile(s, c) ==
    IF refuses_over(s) \/ ~ (s.discovery[c] = 1)
    THEN [st |-> s, result |-> "False"]
    ELSE LET r == test_number_tile_backend(clear_update_list(s), c)
         IN  [st |-> update_game_board(r.st), result |-> Bool(r.result)]

\* a flag_tile that reports success whatever the backend says
flag_tile_ignores_result(s, c) ==
    IF refuses_over(s) THEN [st |-> s, result |-> "False"]
    ELSE LET r == flag_tile_backend(clear_update_list(s), c)
         IN  [st |-> update_game_board(r.st), result |-> "True"]

(***************************************************************************)
(* flag_tile(c)                                                            *)
(***************************************************************************)
flag_tile(s, c) ==
    IF refuses_over(s) THEN [st |-> s, result |-> "False"]
    ELSE LET r == flag_tile_backend(clear_update_list(s), c)
         IN  [st |-> update_game_board(r.st), result |-> Bool(r.result)]

(***************************************************************************)
(* Actions: the application calls one public method at a time.             *)
(***************************************************************************)
\* the player keeps at most MaxFlags flags on the board
FlagAllowed(c) ==
    flags[c] = 1 \/ Cardinality({d \in Cells(x, y) : flags[d] = 1}) < MaxFlags

DiscoverTile(c) ==
    /\ Running
    /\ \E out \in discover_tile(Self, c) :
           /\ Assign(out.st)
           /\ ret' = out.result
    /\ op' = "discover_tile"
    /\ stack' = stack

TestNumberTile(c) ==
    /\ Running
    /\ LET out == test_number_tile(Self, c)
       IN  /\ Assign(out.st)
           /\ ret' = out.result
    /\ op' = "test_number_tile"
    /\ stack' = stack

FlagTile(c) ==
    /\ Running
    /\ FlagAllowed(c)
    /\ LET out == flag_tile(Self, c)
       IN  /\ Assign(out.st)
           /\ ret' = out.result
    /\ op' = "flag_tile"
    /\ stack' = stack

(***************************************************************************)
(* reinitialize_game_state(), called by the application at any time (the   *)
(* return key of MinesweeperGUI.tick; the space key once the game is over) *)
(***************************************************************************)
Reinitialize ==
    /\ Running
    /\ \E e \in reinitialize_game_state(Self) : Assign(e)
    /\ op' = "reinitialize_game_state"
    /\ stack' = stack
    /\ ret' = "None"

Next ==
    \/ \E c \in Cells(x, y) : DiscoverTile(c)
    \/ \E c \in Cells(x, y) : TestNumberTile(c)
    \/ \E c \in Cells(x, y) : FlagTile(c)
    \/ Reinitialize

Spec == Init /\ [][Next]_vars

(***************************************************************************)
(* Chord sessions.  A second specification of the same engine on one       *)
(* larger board: ChordMines mines on a board of shape ChordShape, where    *)
(* the player flags and unflags the cells of ChordFlagCells, opens the     *)
(* game on ChordStart and chords on ChordCentre.  It reaches what Spec     *)
(* cannot within its bounds: a chord with several flags around it that     *)
(* hits several mines while cells without a mine stay covered.             *)
(***************************************************************************)
\* the board of the chord sessions: its shape and its number of mines
ChordShape == <<4, 3>>

ChordMines == 3

ChordStart == <<0, 0>>

ChordCentre == <<1, 1>>

ChordFlagCells == {<<1, 0>>, <<0, 1>>, <<1, 2>>}

\* the sessions start on the layouts that open on ChordStart as generated
\* (a first move on any other layout regenerates into one of these)
InitChord ==
    \E e \in {i \in initialize_game_state(ChordShape[1], ChordShape[2],
                                           ChordMines) :
                  ~ first_move_unsafe(i, ChordStart)} :
        /\ x = e.x /\ y = e.y /\ num_tiles = e.num_tiles
        /\ num_mines = e.num_mines /\ MINE_RATE = e.MINE_RATE
        /\ over = e.over /\ lost = e.lost
        /\ play_initiated = e.play_initiated
        /\ update_list = e.update_list
        /\ discovery = e.discovery /\ num_discovered = e.num_discovered
        /\ flags = e.flags /\ num_flags = e.num_flags
        /\ mines = e.mines /\ numbers = e.numbers
        /\ board = e.board /\ derivative = e.derivative
        /\ op = "initialize_game_state" /\ ret = "None"
        /\ stack = <<>>

\* flag_tile(c), any number of flags
FlagTileChord(c) ==
    /\ Running
    /\ LET out == flag_tile(Self, c)
       IN  /\ Assign(out.st)
           /\ ret' = out.result
    /\ op' = "flag_tile"
    /\ stack' = stack

NextChord ==
    \/ \E c \in ChordFlagCells : FlagTileChord(c)
    \/ DiscoverTile(ChordStart)
    \/ TestNumberTile(ChordCentre)

SpecChord == InitChord /\ [][NextChord]_vars

(***************************************************************************)
(* Configuration sessions.  A third specification: the application calls   *)
(* initialize_game_state again on an engine that holds a session, with     *)
(* legal and illegal arguments, between discover_tile calls.  A ValueError *)
(* escapes like a RecursionError: no caller catches it.                    *)
(***************************************************************************)
\* the shapes asked for: those of Shapes and the ones with a side <= 0
InitShapes ==
    Shapes \cup {s \in (-1 .. MaxX) \X (-1 .. MaxY) : s[1] <= 0 \/ s[2] <= 0}

\* the rates asked for: half the cells, and more mines than cells
InitRates == {<<1, 2>>, <<3, 2>>}

\* the mine arguments asked for on a board of the shape s: every count from
\* 0 to one more than the number of cells, and the rates of InitRates
InitArgs(s) ==
    {<<"mines", n>> : n \in 0 .. (IF s[1] > 0 /\ s[2] > 0
                                    THEN s[1] * s[2] + 1 ELSE 1)}
        \cup {<<"rate", r>> : r \in InitRates}

InitializeGameState(s, arg) ==
    /\ Running
    /\ \E out \in initialize_game_state_checked(Self, s[1], s[2], arg) :
           /\ Assign(out.st)
           /\ ret' = out.result
    /\ op' = "initialize_game_state"
    /\ stack' = stack

NextInit ==
    \/ \E c \in Cells(x, y) : DiscoverTile(c)
    \/ \E s \in InitShapes : \E arg \in InitArgs(s) :
           InitializeGameState(s, arg)

SpecInit == Init /\ [][NextInit]_vars

(***************************************************************************)
(* Deep sessions.  A fourth specification: discover_tile one frame of      *)
(* __discover_tile_backend at a time, with the interpreter's recursion     *)
(* limit.  stack holds the backend calls in progress, innermost last; a    *)
(* frame is [cell, next]: next = 0 before the body ran, next = j >= 1 when *)
(* the body is in the neighbour loop of line 411 and its j-th neighbour is *)
(* the next to call, next = -1 when the frame waits for the retry of line  *)
(* 382, whose result it returns.  While a call is in progress ret is       *)
(* "Pending".  The outcome operator discover_tile above is this machine    *)
(* run to the end on boards where the limit is out of reach                *)
(* (num_tiles + BaseFrames + 1 <= RecursionLimit).                         *)
(***************************************************************************)
\* line 95
RecursionLimit == 1000

\* lines 95-98: the limit set by initialize_game_state
recursion_limit(s) ==
    IF s.num_tiles > RecursionLimit THEN s.num_tiles + 1 ELSE RecursionLimit

\* the Python frames under the first backend frame: discover_tile and one
\* caller at least
BaseFrames == 2

\* the board of the deep sessions (no mine) and the cells the player opens
DeepShape == <<1001, 1>>

DeepStarts == {<<1000, 0>>, <<500, 0>>}

InitDeep ==
    LET w == DeepShape[1]
        h == DeepShape[2]
        \* the one mask __populate_mine_mask produces for 0 mines
        e == build_game_state_tensors(w, h, 0, <<0, w * h>>, Zeros(w, h))
    IN  /\ x = e.x /\ y = e.y /\ num_tiles = e.num_tiles
        /\ num_mines = e.num_mines /\ MINE_RATE = e.MINE_RATE
        /\ over = e.over /\ lost = e.lost
        /\ play_initiated = e.play_initiated
        /\ update_list = e.update_list
        /\ discovery = e.discovery /\ num_discovered = e.num_discovered
        /\ flags = e.flags /\ num_flags = e.num_flags
        /\ mines = e.mines /\ numbers = e.numbers
        /\ board = e.board /\ derivative = e.derivative
        /\ op = "initialize_game_state" /\ ret = "None"
        /\ stack = <<>>

Top == stack[Len(stack)]

\* the depth of the Python stack inside the innermost frame of stk
Depth(stk) == BaseFrames + Len(stk)

\* stk with next of its innermost frame set to j
SetNext(stk, j) == [stk EXCEPT ![Len(stk)].next = j]

\* what is left of stk when its innermost frame returns: the frame goes,
\* and with it the frames under it that wait for its result (line 382:
\* return self.__discover_tile_backend(x, y))
Unwind(stk) ==
    LET n == Len(stk) - 1
        k == CHOOSE i \in 0 .. n :
                 /\ i = 0 \/ stk[i].next # -1
                 /\ \A j \in (i + 1) .. n : stk[j].next = -1
    IN  SubSeq(stk, 1, k)

\* the innermost frame of stk returns r with the fields s; the outermost
\* return goes through discover_tile, which updates the board (lines 339-342)
Return(stk, s, r) ==
    \E rest \in {Unwind(stk)} :
        /\ stack' = rest
        /\ IF rest = <<>>
           THEN Assign(update_game_board(s)) /\ ret' = Bool(r)
           ELSE Assign(s) /\ ret' = "Pending"

\* RecursionError escapes every frame, with the fields s as they are
Raise(s) ==
    /\ Assign(s)
    /\ stack' = <<>>
    /\ ret' = "RecursionError"

\* an end of call that records its cell twice
epilogue_twice(s, c) ==
    [s EXCEPT !.num_discovered = @ + 1,
              !.update_list = Append(Append(@, c), c)]

\* lines 414-416
epilogue(s, c) ==
    [s EXCEPT !.num_discovered = @ + 1, !.update_list = Append(@, c)]

\* the body of the innermost frame of stk, run on the fields s up to its
\* first backend call or its return (lines 362-411)
Body(stk, s) ==
    LET c == stk[Len(stk)].cell
        s1 == [s EXCEPT !.play_initiated = TRUE]
        s2 == [s1 EXCEPT !.discovery[c] = 1]
        s4 == [s2 EXCEPT !.derivative[c] = @ + 2 + s2.numbers[c]]
    IN  IF refuses_flagged(s, c) THEN Return(stk, s, FALSE)
        ELSE IF first_move_unsafe(s, c)
        THEN \E e \in regenerate(s) :
                 IF Depth(stk) + 1 > recursion_limit(e) THEN Raise(e)
                 ELSE /\ Assign(e)
                      /\ ret' = "Pending"
                      /\ stack' = Append(SetNext(stk, -1),
                                         [cell |-> c, next |-> 0])
        ELSE IF refuses_discovered(s1, c) THEN Return(stk, s1, FALSE)
        ELSE IF s2.mines[c] = 1
        THEN Return(stk, epilogue(expose_mines(s2, c), c), TRUE)
        ELSE IF cascades(s4, c)
        THEN \* __get_legal_neighbors runs one frame deeper
             IF Depth(stk) + 1 > recursion_limit(s4) THEN Raise(s4)
             ELSE Assign(s4) /\ ret' = "Pending" /\ stack' = SetNext(stk, 1)
        ELSE Return(stk, epilogue(s4, c), TRUE)

\* discover_tile up to its call of the backend (lines 331-336)
BeginDiscover(c) ==
    /\ Running /\ ret # "Pending"
    /\ stack = <<>>
    /\ op' = "discover_tile"
    /\ IF refuses_over(Self)
       THEN UNCHANGED engine /\ ret' = "False" /\ stack' = stack
       ELSE /\ Assign(clear_update_list(Self))
            /\ ret' = "Pending"
            /\ stack' = <<[cell |-> c, next |-> 0]>>

\* the first backend call of discover_tile, or a retry of line 382, runs
\* its body
Enter ==
    /\ stack # <<>> /\ Top.next = 0
    /\ op' = op
    /\ Body(stack, Self)

\* lines 411-412: the call on the next neighbour, which runs its body (no
\* retry there: play_initiated is set)
CallNeighbour ==
    /\ stack # <<>> /\ Top.next >= 1
    /\ LET q == get_legal_neighbors(x, y, Top.cell)
       IN  /\ Top.next <= Len(q)
           /\ op' = op
           /\ IF Depth(stack) + 1 > recursion_limit(Self) THEN Raise(Self)
              ELSE \E stk \in {Append(SetNext(stack, Top.next + 1),
                                      [cell |-> q[Top.next], next |-> 0])} :
                       Body(stk, Self)

\* the only call in progress is __test_number_tile_backend
ChordFrame == op = "test_number_tile" /\ Len(stack) = 1

\* lines 414-416: the neighbour loop of a backend call is over
Finish ==
    /\ stack # <<>> /\ Top.next >= 1
    /\ ~ ChordFrame
    /\ Top.next > Len(get_legal_neighbors(x, y, Top.cell))
    /\ op' = op
    /\ Return(stack, epilogue(Self, Top.cell), TRUE)

NextDeep ==
    \/ \E c \in DeepStarts : BeginDiscover(c)
    \/ Enter
    \/ CallNeighbour
    \/ Finish

SpecDeep == InitDeep /\ [][NextDeep]_vars

(***************************************************************************)
(* First-move sessions.  A fifth specification: the same machine of        *)
(* backend calls on a small board with a mine, where the first discover    *)
(* regenerates and retries (lines 367-382), one retry per step and one     *)
(* more frame per retry.  The layouts come from random.randint, so a draw  *)
(* that is possible again and again is eventually made: strong fairness on *)
(* the retry that draws a layout safe for the target, weak fairness on the *)
(* progress of a call.                                                     *)
(***************************************************************************)
RetryShape == <<3, 1>>

RetryMines == 1

InitRetry ==
    \E e \in initialize_game_state(RetryShape[1], RetryShape[2], RetryMines) :
        /\ x = e.x /\ y = e.y /\ num_tiles = e.num_tiles
        /\ num_mines = e.num_mines /\ MINE_RATE = e.MINE_RATE
        /\ over = e.over /\ lost = e.lost
        /\ play_initiated = e.play_initiated
        /\ update_list = e.update_list
        /\ discovery = e.discovery /\ num_discovered = e.num_discovered
        /\ flags = e.flags /\ num_flags = e.num_flags
        /\ mines = e.mines /\ numbers = e.numbers
        /\ board = e.board /\ derivative = e.derivative
        /\ op = "initialize_game_state" /\ ret = "None"
        /\ stack = <<>>

\* a step of the innermost call that leaves a layout safe for its target
SafeDraw ==
    /\ Enter
    /\ mines'[Top.cell] = 0
    /\ numbers'[Top.cell] = 0

NextRetry ==
    \/ \E c \in Cells(x, y) : BeginDiscover(c)
    \/ Enter
    \/ CallNeighbour
    \/ Finish

SpecRetry ==
    /\ InitRetry
    /\ [][NextRetry]_vars
    /\ WF_vars(Enter \/ CallNeighbour \/ Finish)
    /\ SF_vars(SafeDraw)

(***************************************************************************)
(* Play sessions.  A sixth specification: on a small board the first move  *)
(* and the flags are whole calls, and once play is initiated discover_tile *)
(* and test_number_tile run one backend call per step.  The frame at the   *)
(* bottom of a chord is the call of __test_number_tile_backend, in its     *)
(* loop over the neighbours (lines 489-490).  The interpreter runs a call  *)
(* in progress on: weak fairness on its steps.                             *)
(***************************************************************************)
PlayShape == <<3, 2>>

PlayMines == 1

InitPlay ==
    \E e \in initialize_game_state(PlayShape[1], PlayShape[2], PlayMines) :
        /\ x = e.x /\ y = e.y /\ num_tiles = e.num_tiles
        /\ num_mines = e.num_mines /\ MINE_RATE = e.MINE_RATE
        /\ over = e.over /\ lost = e.lost
        /\ play_initiated = e.play_initiated
        /\ update_list = e.update_list
        /\ discovery = e.discovery /\ num_discovered = e.num_discovered
        /\ flags = e.flags /\ num_flags = e.num_flags
        /\ mines = e.mines /\ numbers = e.numbers
        /\ board = e.board /\ derivative = e.derivative
        /\ op = "initialize_game_state" /\ ret = "None"
        /\ stack = <<>>

\* test_number_tile up to the neighbour loop of its backend (lines 438-488)
BeginChord(c) ==
    /\ Running /\ ret # "Pending"
    /\ stack = <<>>
    /\ op' = "test_number_tile"
    /\ IF refuses_over(Self) \/ ~ (discovery[c] = 1)
       THEN UNCHANGED engine /\ ret' = "False" /\ stack' = stack
       ELSE IF number_matches(clear_update_list(Self), c)
       THEN /\ Assign(clear_update_list(Self))
            /\ ret' = "Pending"
            /\ stack' = <<[cell |-> c, next |-> 1]>>
       ELSE /\ Assign(update_game_board(clear_update_list(Self)))
            /\ ret' = "False"
            /\ stack' = stack

\* lines 491-493: the neighbour loop of the chord is over
FinishChord ==
    /\ stack # <<>> /\ Top.next >= 1
    /\ ChordFrame
    /\ Top.next > Len(get_legal_neighbors(x, y, Top.cell))
    /\ op' = op
    /\ Return(stack, Self, TRUE)

NextPlay ==
    \/ \E c \in Cells(x, y) :
           ret # "Pending" /\ ~ play_initiated /\ DiscoverTile(c)
    \/ \E c \in Cells(x, y) : ret # "Pending" /\ FlagTile(c)
    \/ \E c \in Cells(x, y) : play_initiated /\ BeginDiscover(c)
    \/ \E c \in Cells(x, y) : BeginChord(c)
    \/ Enter
    \/ CallNeighbour
    \/ Finish
    \/ FinishChord

SpecPlay ==
    /\ InitPlay
    /\ [][NextPlay]_vars
    /\ WF_vars(Enter \/ CallNeighbour \/ Finish \/ FinishChord)

(***************************************************************************)
(* Vocabulary of the properties.                                           *)
(***************************************************************************)
Board == Cells(x, y)

Abs(n) == IF n < 0 THEN -n ELSE n

\* c and d touch (8-neighbourhood)
Adjacent(c, d) == c # d /\ Abs(c[1] - d[1]) <= 1 /\ Abs(c[2] - d[2]) <= 1

Discovered(s) == {d \in Cells(s.x, s.y) : s.discovery[d] = 1}

Flagged(s) == {d \in Cells(s.x, s.y) : s.flags[d] = 1}

Mines(s) == {d \in Cells(s.x, s.y) : s.mines[d] = 1}

Won == over /\ ~ lost

Lost == over /\ lost

Gameplay == {"discover_tile", "test_number_tile", "flag_tile"}

\* the grid, the board, the counters and the status of t are those of s
SameGame(s, t) ==
    /\ t.mines = s.mines /\ t.numbers = s.numbers
    /\ t.discovery = s.discovery /\ t.flags = s.flags
    /\ t.board = s.board
    /\ t.num_discovered = s.num_discovered /\ t.num_flags = s.num_flags
    /\ t.over = s.over /\ t.lost = s.lost
    /\ t.play_initiated = s.play_initiated

RECURSIVE Grow(_, _)
\* the cells of Ok reachable from S by steps between touching cells
Grow(S, Ok) ==
    LET T == S \cup {d \in Ok : \E z \in S : Adjacent(z, d)}
    IN  IF T = S THEN S ELSE Grow(T, Ok)

\* the cells that touch a cell of S
Around(S, w, h) == {d \in Cells(w, h) : \E z \in S : Adjacent(z, d)}

\* the last call was the first successful discover of its session: every
\* discovered cell was discovered by it
FirstDiscoverDone ==
    /\ op = "discover_tile" /\ ret = "True"
    /\ Len(update_list) = num_discovered
    /\ Discovered(Self) = Range(update_list)

(***************************************************************************)
(* C1  First-move safety: a discover_tile call made while no cell is       *)
(* discovered and that returns true leaves its target discovered, without  *)
(* a mine and with number 0 on the layout in force when it returns,        *)
(* whatever flags were placed and whether or not it regenerated.           *)
(***************************************************************************)
C1_FirstMoveSafe ==
    Discovered(Self) = {} =>
        \A c \in Board : \A out \in discover_tile(Self, c) :
            out.result = "True" =>
                /\ out.st.discovery[c] = 1
                /\ out.st.mines[c] = 0
                /\ out.st.numbers[c] = 0
                /\ out.st.play_initiated

\* a first discover has succeeded after a regeneration (the rebuilt counter
\* num_flags is 0 although a flag is on the board) of a board with mines
C1_Witness ==
    /\ FirstDiscoverDone
    /\ num_mines > 0
    /\ Flagged(Self) # {} /\ num_flags = 0

(***************************************************************************)
(* C2  Whenever a discover_tile or test_number_tile call has discovered a  *)
(* mine, the status is Lost, every discovered mine displays -4 and every   *)
(* other mine without a flag displays -3.                                  *)
(***************************************************************************)
C2_MineDiscoveredDisplay ==
    (Mines(Self) \cap Discovered(Self) # {}) =>
        /\ over /\ lost
        /\ \A c \in Mines(Self) :
               /\ discovery[c] = 1 => board[c] = -4
               /\ (discovery[c] = 0 /\ flags[c] = 0) => board[c] = -3

(***************************************************************************)
(* C3  After every public gameplay call that returned,                     *)
(* num_discovered + num_mines = num_tiles exactly when the status is Won.  *)
(***************************************************************************)
C3_EqualityIffWon ==
    (op \in Gameplay /\ Running) =>
        ((num_discovered + num_mines = num_tiles) <=> Won)

(***************************************************************************)
(* C4  Flood reveal.  Original statement: a successful discover_tile on a  *)
(* non-mine cell with number 0, in a game that is not over, leaves         *)
(* discovered exactly the cells discovered before, the target's connected  *)
(* region of zero cells and the cells bordering that region.               *)
(***************************************************************************)
ZeroCells(s) == {d \in Cells(s.x, s.y) : s.mines[d] = 0 /\ s.numbers[d] = 0}

C4_FloodRevealWholeRegion ==
    ~ over =>
        \A c \in Board : \A out \in discover_tile(Self, c) :
            (out.result = "True" /\ c \in ZeroCells(out.st)) =>
                LET region == Grow({c}, ZeroCells(out.st))
                IN  Discovered(out.st) =
                        Discovered(Self) \cup region \cup Around(region, x, y)

(***************************************************************************)
(* C4 as amended: the reveal spreads through zero cells that were neither  *)
(* discovered nor flagged before the call; it leaves discovered exactly    *)
(* the cells discovered before, those zero cells reachable from the target *)
(* and the unflagged cells that touch them.  Flagged cells stay            *)
(* undiscovered and flagged.                                               *)
(***************************************************************************)
C4_FloodRevealUnflagged ==
    ~ over =>
        \A c \in Board : \A out \in discover_tile(Self, c) :
            (out.result = "True" /\ c \in ZeroCells(out.st)) =>
                LET open == ZeroCells(out.st)
                                \ (Discovered(Self) \cup Flagged(Self))
                    region == Grow({c}, open)
                IN  /\ Discovered(out.st) =
                           Discovered(Self) \cup region
                               \cup (Around(region, x, y) \ Flagged(Self))
                    /\ out.st.flags = flags

\* a first discover has cascaded (more than one cell) around a flag, on a
\* board where a cell without a mine is still undiscovered
C4_Witness ==
    /\ op = "discover_tile" /\ ret = "True"
    /\ Len(update_list) > 1
    /\ numbers[update_list[Len(update_list)]] = 0
    /\ Flagged(Self) # {}
    /\ ~ over

C6_ChordDiscoversAllNeighbours ==
    \A c \in Board :
        LET out == test_number_tile(Self, c)
        IN  out.result = "True" =>
                \A d \in Board : Adjacent(c, d) => out.st.discovery[d] = 1

(***************************************************************************)
(* C6 as amended: when test_number_tile returns true, every cell that      *)
(* touches the target and carries no flag is discovered after the call,    *)
(* and every flagged cell stays undiscovered.                              *)
(***************************************************************************)
C6_ChordDiscoversUnflaggedNeighbours ==
    \A c \in Board :
        LET out == test_number_tile(Self, c)
        IN  out.result = "True" =>
                /\ \A d \in Board :
                       (Adjacent(c, d) /\ flags[d] = 0) =>
                           out.st.discovery[d] = 1
                /\ \A d \in Flagged(Self) : out.st.discovery[d] = 0

\* a chord returned true, discovered a cell and left a flagged cell alone
C6_Witness ==
    /\ op = "test_number_tile" /\ ret = "True"
    /\ update_list # <<>>
    /\ Flagged(Self) # {}

(***************************************************************************)
(* C7  Once the game is over (Won or Lost), discover_tile,                 *)
(* test_number_tile and flag_tile return false on every cell and leave the *)
(* mine layout, the numbers, the discovery mask, the flags, the board, the *)
(* counters, over and lost unchanged.                                      *)
(***************************************************************************)
C7_TerminalAbsorbing ==
    over =>
        \A c \in Board :
            /\ \A out \in discover_tile(Self, c) :
                   out.result = "False" /\ SameGame(Self, out.st)
            /\ LET out == test_number_tile(Self, c)
               IN  out.result = "False" /\ SameGame(Self, out.st)
            /\ LET out == flag_tile(Self, c)
               IN  out.result = "False" /\ SameGame(Self, out.st)

\* a move was refused in a won game whose mines carry no flag
C7_Witness ==
    /\ Won
    /\ op \in Gameplay /\ ret = "False"
    /\ Mines(Self) # {} /\ Flagged(Self) = {}

(***************************************************************************)
(* C8  A discover_tile, test_number_tile or flag_tile call that returns    *)
(* false leaves the grid (mines, numbers, discovery, flags), the board,    *)
(* num_discovered, num_flags, over, lost and play_initiated as they were.  *)
(***************************************************************************)
C8_FailedCallNoEffect ==
    \A c \in Board :
        /\ \A out \in discover_tile(Self, c) :
               out.result = "False" => SameGame(Self, out.st)
        /\ LET out == test_number_tile(Self, c)
           IN  out.result = "False" => SameGame(Self, out.st)
        /\ LET out == flag_tile(Self, c)
           IN  out.result = "False" => SameGame(Self, out.st)

\* a chord was refused in a game in progress
C8_Witness ==
    /\ op = "test_number_tile" /\ ret = "False"
    /\ ~ over /\ play_initiated

(***************************************************************************)
(* C9  discover_tile on a flagged cell of a game that is not over returns  *)
(* false, leaves the cell undiscovered and flagged, and regenerates        *)
(* nothing, also before the first move.                                    *)
(***************************************************************************)
C9_FlaggedTargetRefused ==
    \A c \in Board :
        (~ over /\ flags[c] = 1) =>
            \A out \in discover_tile(Self, c) :
                /\ out.result = "False"
                /\ out.st.flags[c] = 1
                /\ out.st.discovery[c] = 0
                /\ out.st.mines = mines /\ out.st.numbers = numbers

\* a discover was refused before the first move: its target was flagged
C9_Witness ==
    /\ op = "discover_tile" /\ ret = "False"
    /\ ~ over /\ ~ play_initiated
    /\ Flagged(Self) # {}

(***************************************************************************)
(* C10  Whenever the game is Won, every mine cell displays -1, flagged or  *)
(* not, and every cell without a mine displays its number 0..8.            *)
(***************************************************************************)
C10_WonDisplay ==
    Won =>
        \A c \in Board :
            /\ mines[c] = 1 => board[c] = -1
            /\ mines[c] = 0 => (board[c] = numbers[c] /\ board[c] \in 0 .. 8)

\* a discover won a game in which a mine carries no flag
C10_Witness ==
    /\ Won
    /\ op = "discover_tile" /\ ret = "True"
    /\ \E c \in Mines(Self) : flags[c] = 0

(***************************************************************************)
(* C11  Whenever the status is Lost, every flagged cell without a mine     *)
(* displays -5 and every flagged mine displays -1.                         *)
(***************************************************************************)
C11_LostFlagDisplay ==
    Lost =>
        \A c \in Flagged(Self) :
            /\ mines[c] = 0 => board[c] = -5
            /\ mines[c] = 1 => board[c] = -1

\* a chord lost a game in which a mine and a cell without a mine carry a
\* flag, and cells without a mine stay covered
C11_Witness ==
    /\ Lost
    /\ op = "test_number_tile" /\ ret = "True"
    /\ \E c \in Flagged(Self) : mines[c] = 0
    /\ \E c \in Flagged(Self) : mines[c] = 1
    /\ num_discovered + num_mines # num_tiles

(***************************************************************************)
(* C12  discover_tile(c) returns true exactly when c was undiscovered      *)
(* before the call and is discovered after it (a regeneration starts from  *)
(* a grid with nothing discovered); it returns false when the game is      *)
(* over, when c is flagged and when c was already discovered.              *)
(***************************************************************************)
C12_DiscoverResult ==
    \A c \in Board : \A out \in discover_tile(Self, c) :
        /\ out.result = "True" <=>
               (discovery[c] = 0 /\ out.st.discovery[c] = 1)
        /\ (over \/ flags[c] = 1 \/ discovery[c] = 1) => out.result = "False"

\* a discover returned false in a game in progress without flags: its
\* target was already discovered
C12_Witness ==
    /\ op = "discover_tile" /\ ret = "False"
    /\ ~ over /\ play_initiated
    /\ Flagged(Self) = {}
    /\ Discovered(Self) # {}

(***************************************************************************)
(* C13  When no layout of the configured mine count makes the first-move   *)
(* target a cell without a mine and with number 0, the first discover_tile *)
(* call on that (unflagged) target gives up and returns false.             *)
(***************************************************************************)
C13_HopelessFirstMoveReturnsFalse ==
    \A c \in Board :
        (/\ ~ over /\ ~ play_initiated /\ flags[c] = 0
         /\ first_move_unsafe(Self, c)
         /\ \A e \in regenerate(Self) : first_move_unsafe(e, c)) =>
            \A out \in discover_tile(Self, c) : out.result = "False"

(***************************************************************************)
(* C14  The mine mask of every (re)generation holds exactly num_mines mine *)
(* cells and num_tiles - num_mines cells without a mine, whether the       *)
(* placement put mines on an empty mask (num_mines <= num_tiles / 2) or    *)
(* holes in a full one.                                                    *)
(***************************************************************************)
C14_MineCount ==
    /\ Cardinality(Mines(Self)) = num_mines
    /\ Cardinality(Board \ Mines(Self)) = num_tiles - num_mines
    /\ \A c \in Board : mines[c] \in {0, 1}

\* a grid generated on the hole-placing branch, with holes to place
C14_Witness ==
    /\ op = "initialize_game_state"
    /\ 2 * num_mines > num_tiles
    /\ num_mines < num_tiles

(***************************************************************************)
(* C15  On every generated grid, the number of a cell without a mine is    *)
(* the count of mines among the cells of the board that touch it (its 3x3  *)
(* block without itself, cut at the edges), it lies in 0..8, and the       *)
(* number of a mine cell is 0.                                             *)
(***************************************************************************)
C15_NumbersCountAdjacentMines ==
    \A c \in Board :
        /\ mines[c] = 0 =>
               /\ numbers[c] =
                      Cardinality({d \in Mines(Self) : Adjacent(c, d)})
               /\ numbers[c] \in 0 .. 8
        /\ mines[c] = 1 => numbers[c] = 0

\* a regenerated grid with a cell that counts a mine on its diagonal and
\* at least one more
C15_Witness ==
    /\ op = "reinitialize_game_state"
    /\ \E c \in Board \ Mines(Self) :
           /\ numbers[c] >= 2
           /\ \E d \in Mines(Self) : Abs(c[1] - d[1]) = 1 /\ Abs(c[2] - d[2]) = 1

(***************************************************************************)
(* C16  In every state of a game that is not over, the board kept by       *)
(* adding the derivative of each call equals the board __build_game_board  *)
(* computes from the flags, the discovery mask and the numbers: the number *)
(* on a discovered cell, -1 on an undiscovered flagged cell, -2 elsewhere. *)
(***************************************************************************)
C16_BoardIsAbsoluteEncoding ==
    ~ over =>
        /\ board = build_game_board(x, y, flags, discovery, numbers)
        /\ \A c \in Board :
               board[c] = IF discovery[c] = 1 THEN numbers[c]
                          ELSE IF flags[c] = 1 THEN -1 ELSE -2
        /\ \A c \in Board : derivative[c] = 0

\* a game in progress shows a positive number, a flag and a covered cell
C16_Witness ==
    /\ ~ over /\ play_initiated
    /\ op \in Gameplay
    /\ \E c \in Discovered(Self) : numbers[c] > 0
    /\ Flagged(Self) # {}
    /\ \E c \in Board : discovery[c] = 0 /\ flags[c] = 0

(***************************************************************************)
(* C18  In every reachable state every cell of the board holds one of the  *)
(* display codes -5, -4, -3, -2, -1, 0..8.                                 *)
(***************************************************************************)
C18_DisplayCodesDefined ==
    \A c \in Board : board[c] \in (-5 .. -1) \cup (0 .. 8)

(***************************************************************************)
(* C17  update_list after a call.  Changed: the cells whose display code   *)
(* differs between s and t; Touched: the cells whose discovery or flag     *)
(* differs.  Returned(c): the outcomes of the three calls on c that        *)
(* return.                                                                 *)
(***************************************************************************)
Changed(s, t) == {d \in Cells(s.x, s.y) : t.board[d] # s.board[d]}

Touched(s, t) ==
    {d \in Cells(s.x, s.y) :
        t.discovery[d] # s.discovery[d] \/ t.flags[d] # s.flags[d]}

Returned(c) ==
    {out \in discover_tile(Self, c) : out.result # "RecursionError"}
        \cup {test_number_tile(Self, c), flag_tile(Self, c)}

(***************************************************************************)
(* C17  Original statement: after every discover_tile, test_number_tile or *)
(* flag_tile call that is not rejected for game-over, update_list contains *)
(* every coordinate whose display code differs from its value before the   *)
(* call, and only coordinates this call touched.                           *)
(***************************************************************************)
C17_UpdateListHoldsEveryChange ==
    ~ over =>
        \A c \in Board : \A out \in Returned(c) :
            /\ Changed(Self, out.st) \subseteq Range(out.st.update_list)
            /\ Range(out.st.update_list) \subseteq Touched(Self, out.st)

(***************************************************************************)
(* C17 as amended: after every discover_tile or flag_tile call made while  *)
(* the game is not over, and every test_number_tile call made on a         *)
(* discovered cell while the game is not over, update_list holds exactly   *)
(* the cells the call discovered, flagged or unflagged; when the call      *)
(* leaves the game not over, these are exactly the coordinates whose       *)
(* display code changed.                                                   *)
(***************************************************************************)
C17_UpdateListHoldsTouchedCells ==
    ~ over =>
        \A c \in Board :
            \A out \in IF discovery[c] = 1 THEN Returned(c)
                        ELSE Returned(c) \ {test_number_tile(Self, c)} :
                /\ Range(out.st.update_list) = Touched(Self, out.st)
                /\ ~ out.st.over =>
                       Changed(Self, out.st) = Range(out.st.update_list)

\* a discover that followed a flag call opened several cells around the flag
\* and left the game in progress
C17_Witness ==
    /\ op = "discover_tile" /\ ret = "True"
    /\ ~ over
    /\ Len(update_list) > 1
    /\ Range(update_list) = Discovered(Self)
    /\ Flagged(Self) # {}
    /\ num_flags = 1

(***************************************************************************)
(* C19  A first discover_tile call that regenerated the grid and returned  *)
(* leaves flagged exactly the cells that were flagged before it, and the   *)
(* board shows -1 at every flagged cell, all of them undiscovered.         *)
(***************************************************************************)
C19_RegenerationKeepsFlags ==
    \A c \in Board :
        (~ over /\ flags[c] = 0 /\ first_move_unsafe(Self, c)) =>
            \A out \in discover_tile(Self, c) :
                out.result = "True" =>
                    /\ out.st.flags = flags
                    /\ \A d \in Flagged(Self) :
                           /\ out.st.discovery[d] = 0
                           /\ out.st.board[d] = -1

\* a first discover regenerated (the rebuilt counter num_flags is 0) and
\* opened the game around a flag that still shows -1
C19_Witness ==
    /\ FirstDiscoverDone
    /\ ~ over
    /\ num_flags = 0
    /\ \E d \in Flagged(Self) : board[d] = -1 /\ discovery[d] = 0

(***************************************************************************)
(* C20  A reinitialize_game_state call made in any reachable state leaves  *)
(* x and y as they were, over, lost and play_initiated false,              *)
(* num_discovered and num_flags 0, no cell discovered or flagged,          *)
(* update_list empty and -2 on every cell of the board.                    *)
(***************************************************************************)
C20_ReinitializeResets ==
    \A e \in reinitialize_game_state(Self) :
        /\ e.x = x /\ e.y = y
        /\ ~ e.over /\ ~ e.lost /\ ~ e.play_initiated
        /\ e.num_discovered = 0 /\ e.num_flags = 0
        /\ Discovered(e) = {} /\ Flagged(e) = {}
        /\ e.update_list = <<>>
        /\ \A c \in Cells(e.x, e.y) : e.board[c] = -2

\* a game with mines was restarted and nothing is left of the old game
C20_Witness ==
    /\ op = "reinitialize_game_state"
    /\ num_mines > 0 /\ num_tiles > 1
    /\ ~ over /\ ~ play_initiated
    /\ Discovered(Self) = {} /\ Flagged(Self) = {}

(***************************************************************************)
(* C21  A test_number_tile call on a discovered cell of a game that is not *)
(* over, where the number of flagged cells touching the cell differs from  *)
(* its number, returns false and changes no discovery or flag bit, no      *)
(* counter, no display code and no status field.                           *)
(***************************************************************************)
FlagsAround(c) == Cardinality({d \in Flagged(Self) : Adjacent(c, d)})

C21_ChordMismatchNoEffect ==
    \A c \in Board :
        (~ over /\ discovery[c] = 1 /\ FlagsAround(c) # numbers[c]) =>
            LET out == test_number_tile(Self, c)
            IN  /\ out.result = "False"
                /\ SameGame(Self, out.st)

\* a chord on a discovered cell was refused: the list is the cleared one,
\* and a discovered cell has a number its flags do not match
C21_Witness ==
    /\ op = "test_number_tile" /\ ret = "False"
    /\ ~ over /\ play_initiated
    /\ update_list = <<>>
    /\ \E c \in Discovered(Self) : FlagsAround(c) # numbers[c]

(***************************************************************************)
(* C22  test_number_tile returns false and discovers nothing whenever its  *)
(* target is not discovered or the game is over, also when the flags       *)
(* around the target match its stored number.                              *)
(***************************************************************************)
C22_ChordNeedsDiscoveredTarget ==
    \A c \in Board :
        (over \/ discovery[c] = 0) =>
            LET out == test_number_tile(Self, c)
            IN  /\ out.result = "False"
                /\ out.st.discovery = discovery
                /\ SameGame(Self, out.st)

\* a chord was refused before the first move on a board that has a cell
\* with number 0 and no flag at all
C22_Witness ==
    /\ op = "test_number_tile" /\ ret = "False"
    /\ ~ over /\ ~ play_initiated
    /\ Flagged(Self) = {}
    /\ \E c \in Board : mines[c] = 0 /\ numbers[c] = 0

(***************************************************************************)
(* C23  flag_tile on an undiscovered cell of a game that is not over       *)
(* returns true, flips the flag of that cell and moves num_flags by +1     *)
(* (flag set) or -1 (flag removed), mine or not; a second flag_tile call   *)
(* on the same cell right after it restores the flag of the cell,          *)
(* num_flags and the display code of the cell.                             *)
(***************************************************************************)
C23_FlagToggle ==
    \A c \in Board :
        (~ over /\ discovery[c] = 0) =>
            LET once == flag_tile(Self, c)
                twice == flag_tile(once.st, c)
            IN  /\ once.result = "True"
                /\ once.st.flags[c] = 1 - flags[c]
                /\ once.st.num_flags =
                       IF flags[c] = 0 THEN num_flags + 1 ELSE num_flags - 1
                /\ twice.st.flags[c] = flags[c]
                /\ twice.st.num_flags = num_flags
                /\ twice.st.board[c] = board[c]

(***************************************************************************)
(* C24  flag_tile on a discovered cell returns false, leaves the cell      *)
(* without a flag and leaves num_flags as it was.                          *)
(***************************************************************************)
C24_FlagDiscoveredRefused ==
    \A c \in Board :
        discovery[c] = 1 =>
            LET out == flag_tile(Self, c)
            IN  /\ out.result = "False"
                /\ out.st.flags[c] = 0
                /\ out.st.num_flags = num_flags
                /\ out.st.flags = flags

\* a flag call was refused in a game in progress: its target was discovered
C24_Witness ==
    /\ op = "flag_tile" /\ ret = "False"
    /\ ~ over /\ play_initiated
    /\ Discovered(Self) # {}

(***************************************************************************)
(* C25  In every reachable state no cell is both discovered and flagged.   *)
(***************************************************************************)
C25_NeverDiscoveredAndFlagged ==
    \A c \in Board : ~ (discovery[c] = 1 /\ flags[c] = 1)

\* after a first move that regenerated around a flag (the rebuilt counter
\* is 0), a chord has discovered cells and the flag is still in place
C25_Witness ==
    /\ op = "test_number_tile" /\ ret = "True"
    /\ update_list # <<>>
    /\ Flagged(Self) # {} /\ num_flags = 0
    /\ Discovered(Self) # {}

(***************************************************************************)
(* C26  initialize_game_state raises ValueError whenever the width or the  *)
(* height is <= 0 or the resulting mine count exceeds width * height, and  *)
(* for every other argument (positive sides, 0 <= count <= width * height) *)
(* it returns with a session of that shape and that count.                 *)
(***************************************************************************)
Count(s, arg) ==
    IF arg[1] = "mines" THEN arg[2] ELSE (s[1] * s[2] * arg[2][1]) \div arg[2][2]

C26_InitializeValidates ==
    \A s \in InitShapes : \A arg \in InitArgs(s) :
        LET outs == initialize_game_state_checked(Self, s[1], s[2], arg)
            illegal == s[1] <= 0 \/ s[2] <= 0 \/ Count(s, arg) > s[1] * s[2]
        IN  /\ outs # {}
            /\ illegal => \A out \in outs : out.result = "ValueError"
            /\ ~ illegal =>
                   \A out \in outs :
                       /\ out.result = "None"
                       /\ out.st.x = s[1] /\ out.st.y = s[2]
                       /\ out.st.num_mines = Count(s, arg)
                       /\ Cardinality(Mines(out.st)) = Count(s, arg)

\* a call with more mines than cells has raised on a session in progress
C26_Witness ==
    /\ op = "initialize_game_state" /\ ret = "ValueError"
    /\ x > 0 /\ y > 0 /\ num_mines > num_tiles
    /\ \E c \in DOMAIN discovery : discovery[c] = 1

(***************************************************************************)
(* C27  An initialize_game_state call that raises ValueError leaves the    *)
(* session it was called on as it was: over, lost, play_initiated, x, y,   *)
(* num_tiles, num_mines, the grid and the counters.                        *)
(***************************************************************************)
C27_FailedInitializeNoEffect ==
    \A s \in InitShapes : \A arg \in InitArgs(s) :
        \A out \in initialize_game_state_checked(Self, s[1], s[2], arg) :
            out.result = "ValueError" =>
                /\ out.st.over = over /\ out.st.lost = lost
                /\ out.st.play_initiated = play_initiated
                /\ out.st.x = x /\ out.st.y = y
                /\ out.st.num_tiles = num_tiles
                /\ out.st.num_mines = num_mines
                /\ out.st.mines = mines /\ out.st.numbers = numbers
                /\ out.st.discovery = discovery /\ out.st.flags = flags
                /\ out.st.num_discovered = num_discovered
                /\ out.st.num_flags = num_flags

(***************************************************************************)
(* C28  On a board with 0 mines and no flag, the first discover_tile call  *)
(* returns True, discovers every cell in that one call and leaves the      *)
(* status Won.  In the deep sessions the only call that runs the backend   *)
(* is the first one (the next ones are refused, the game being over), so   *)
(* the step that ends a pending call ends the first call.  Violated on the *)
(* 1001x1 board opened at (1000, 0): the cascade is one backend call per      *)
(* tile, and with the frames under it it passes the limit of               *)
(* num_tiles + 1 frames that initialize_game_state set; RecursionError     *)
(* escapes discover_tile with part of the row discovered and the game not  *)
(* over.  Opened at (500, 0) the same board is won in one call.            *)
(***************************************************************************)
C28_ZeroMineBoardOpensAtOnce ==
    [][(/\ num_mines = 0
        /\ Flagged(Self) = {}
        /\ ret = "Pending"
        /\ ret' # "Pending")
       => (/\ ret' = "True"
           /\ \A c \in Board : discovery'[c] = 1
           /\ Won')]_vars

(***************************************************************************)
(* C29  In every reachable state num_flags is the number of cells whose    *)
(* flag is set, and so never negative.                                     *)
(***************************************************************************)
C29_NumFlagsCountsFlags ==
    /\ num_flags = Cardinality(Flagged(Self))
    /\ num_flags >= 0

(***************************************************************************)
(* C30  At most one mine cell is ever discovered in a session.             *)
(***************************************************************************)
C30_AtMostOneMineDiscovered ==
    Cardinality(Mines(Self) \cap Discovered(Self)) <= 1
(***************************************************************************)
(* C31  A discover_tile call loses the game only when its target is a      *)
(* mine, and a call on a target without a mine discovers no mine cell,     *)
(* whatever the layout and the flags: the cascade goes on from cells of    *)
(* number 0 only, and these have no mine around them.                      *)
(***************************************************************************)
C31_CascadeNeverDiscoversMine ==
    \A c \in Board : \A out \in discover_tile(Self, c) :
        /\ (out.st.lost /\ ~ lost) =>
               (/\ mines[c] = 1
                /\ out.st.mines = mines
                /\ out.st.discovery[c] = 1)
        /\ (mines[c] = 0 /\ out.result # "RecursionError") =>
               /\ Mines(out.st) \cap (Discovered(out.st) \ Discovered(Self))
                      = {}
               /\ out.st.lost = lost

\* a discover on a board with mines and a flag opened several cells in one
\* call and the game goes on
C31_Witness ==
    /\ op = "discover_tile" /\ ret = "True"
    /\ Len(update_list) >= 3
    /\ num_mines >= 1
    /\ Flagged(Self) # {}
    /\ ~ over
(***************************************************************************)
(* C32  The game becomes over only in a call that newly discovers a cell:  *)
(* flag_tile never changes over or lost, and a discover_tile call that     *)
(* returns false never changes them, on every board the constructor        *)
(* accepts, the board full of mines included.  Violated on a board full of *)
(* mines: update_game_board runs at the end of every call that was not     *)
(* refused by the over test, and its win test                              *)
(* num_tiles - num_discovered = num_mines holds there with nothing         *)
(* discovered, so the first flag_tile (and a discover_tile on a flagged    *)
(* cell) ends the game as won.                                             *)
(***************************************************************************)
C32_OverOnlyByDiscovery ==
    \A c \in Board :
        /\ LET out == flag_tile(Self, c)
           IN  out.st.over = over /\ out.st.lost = lost
        /\ \A out \in discover_tile(Self, c) :
               /\ out.result = "False" =>
                      (out.st.over = over /\ out.st.lost = lost)
               /\ (out.st.over /\ ~ over) =>
                      Discovered(out.st) \ Discovered(Self) # {}
        /\ LET out == test_number_tile(Self, c)
           IN  (out.st.over /\ ~ over) =>
                   Discovered(out.st) \ Discovered(Self) # {}
(***************************************************************************)
(* C33  Whenever the status is Won, every cell without a mine is           *)
(* discovered and no mine cell is; and whenever a discover_tile,           *)
(* test_number_tile or flag_tile call ends with every cell without a mine  *)
(* discovered and no mine discovered, the status is Won.  The first half   *)
(* holds.  The second is violated on a board full of mines, where the      *)
(* condition holds from the start: test_number_tile returns on its         *)
(* undiscovered target (line 438) before update_game_board and its win     *)
(* test are reached, so the call ends with the game not over, while        *)
(* flag_tile on the same board ends it as won.                             *)
(***************************************************************************)
Cleared ==
    /\ \A c \in Board : mines[c] = 0 => discovery[c] = 1
    /\ \A c \in Board : mines[c] = 1 => discovery[c] = 0

C33_WonIffCleared ==
    /\ Won => Cleared
    /\ (op \in Gameplay /\ ret \in {"True", "False"} /\ Cleared) => Won
(***************************************************************************)
(* C34  In every reachable state between two calls, num_discovered is the  *)
(* number of cells whose discovery bit is set, and play_initiated is false *)
(* exactly when num_discovered is 0.  Violated after an initialize call    *)
(* that raises: play_initiated is reset (line 54) before the arguments are *)
(* checked, while the discovery tensor and its counter are rebuilt only    *)
(* after the checks, so a rejected call in a game in progress leaves       *)
(* play_initiated false with cells discovered.                             *)
(***************************************************************************)
C34_DiscoveredCounter ==
    /\ num_discovered =
           Cardinality({d \in DOMAIN discovery : discovery[d] = 1})
    /\ (~ play_initiated) <=> (num_discovered = 0)
(***************************************************************************)
(* C35  Once play_initiated is true, no discover_tile, test_number_tile or *)
(* flag_tile call changes the mine layout or the numbers, and no           *)
(* discovered cell becomes undiscovered; the only gameplay call that       *)
(* changes the layout is a discover_tile made before play is initiated,    *)
(* with nothing discovered yet.                                            *)
(***************************************************************************)
Outcomes(c) ==
    {out \in discover_tile(Self, c) : out.result # "RecursionError"}
        \cup {test_number_tile(Self, c), flag_tile(Self, c)}

C35_LayoutFrozenOncePlayInitiated ==
    \A c \in Board :
        /\ play_initiated =>
               \A out \in Outcomes(c) :
                   /\ out.st.mines = mines
                   /\ out.st.numbers = numbers
                   /\ Discovered(Self) \subseteq Discovered(out.st)
        /\ \A out \in Outcomes(c) :
               (out.st.mines # mines \/ out.st.numbers # numbers) =>
                   /\ out \in discover_tile(Self, c)
                   /\ ~ play_initiated
                   /\ Discovered(Self) = {}
                   /\ out.st.play_initiated

\* a second discover succeeded in a game with a mine and a flag
C35_Witness ==
    /\ op = "discover_tile" /\ ret = "True"
    /\ play_initiated /\ ~ over
    /\ Len(update_list) < num_discovered
    /\ num_mines >= 1
    /\ Flagged(Self) # {}
(***************************************************************************)
(* C36  Liveness of the first move: when some layout of the configured     *)
(* mine count leaves the unflagged target without a mine and with number   *)
(* 0, the first discover_tile call, under fair layout generation,          *)
(* eventually stops regenerating and returns True.  Violated: every retry  *)
(* is one more frame of __discover_tile_backend, so the call can make only *)
(* as many draws as the recursion limit allows; a run of unsafe draws that *)
(* long ends the call with RecursionError, which no fairness of the draws  *)
(* excludes.                                                               *)
(***************************************************************************)
Feasible(c) ==
    \E m \in populate_mine_mask(x, y, num_mines) :
        m[c] = 0 /\ fill_number_mask(x, y, m)[c] = 0

FirstMovePending ==
    /\ op = "discover_tile" /\ ret = "Pending"
    /\ ~ play_initiated
    /\ stack # <<>>
    /\ flags[stack[1].cell] = 0
    /\ Feasible(stack[1].cell)

C36_FirstMoveEventuallyTrue == FirstMovePending ~> (ret = "True")
(***************************************************************************)
(* C37  Once play is initiated, every discover_tile and test_number_tile   *)
(* call terminates: a call in progress eventually returns True or False.   *)
(* The reveal discovers a cell at most once per call: update_list never    *)
(* holds a cell twice, the cells a call puts in it are discovered, and the *)
(* backend calls in progress on cells they discovered are on distinct      *)
(* cells, so their number is bounded by the number of cells.               *)
(***************************************************************************)
NoRepeat(q) == \A i, j \in 1 .. Len(q) : q[i] = q[j] => i = j

\* the frames in their neighbour loop, the chord's own frame apart
Opening ==
    {i \in 1 .. Len(stack) :
         stack[i].next >= 1 /\ ~ (i = 1 /\ op = "test_number_tile")}

CascadeBounded ==
    /\ NoRepeat(update_list)
    /\ (op \in {"discover_tile", "test_number_tile"}
            /\ ret \in {"Pending", "True"}) =>
           Range(update_list) \subseteq Discovered(Self)
    /\ \A i, j \in Opening : stack[i].cell = stack[j].cell => i = j
    /\ \A i \in Opening :
           /\ discovery[stack[i].cell] = 1
           /\ stack[i].cell \notin Range(update_list)
    /\ Len(stack) <= num_tiles + 1

LossShape == <<22, 1>>

LossMines == 15

mine_mask_runs(w, h, n) ==
    LET tiles == w * h
        more_mines == 2 * n > tiles
        num_places_to_modify == IF more_mines THEN tiles - n ELSE n
        value_to_place == IF more_mines THEN 0 ELSE 1
    IN  {[c \in Cells(w, h) |->
            IF (c[2] * w + c[1] + tiles - k) % tiles < num_places_to_modify
            THEN value_to_place ELSE 1 - value_to_place] :
            k \in 0 .. tiles - 1}

\* reinitialize_game_state on a drawn run
reinitialize_runs(s) ==
    LET n == RateMines(s.x * s.y, s.MINE_RATE)
    IN  {build_game_state_tensors(s.x, s.y, n, s.MINE_RATE, m) :
            m \in mine_mask_runs(s.x, s.y, n)}

\* the first-move regeneration on a drawn run: the flags survive
regenerate_runs(s) ==
    {[e EXCEPT !.flags = s.flags,
               !.board = build_game_board(e.x, e.y, s.flags, e.discovery,
                                          e.numbers)] :
        e \in reinitialize_runs(s)}

\* discover_tile with its regenerations drawn from the runs
discover_tile_runs(s, c) ==
    IF refuses_over(s) THEN {[st |-> s, result |-> "False"]}
    ELSE
    LET s0 == clear_update_list(s)
        drawn == IF refuses_flagged(s0, c) \/ ~ first_move_unsafe(s0, c)
                 THEN {s0}
                 ELSE {e \in regenerate_runs(s0) : ~ first_move_unsafe(e, c)}
    IN  {LET r == discover_tile_backend(e, c)
         IN  [st |-> update_game_board(r.st), result |-> Bool(r.result)] :
            e \in drawn}
        \cup
        (IF ~ refuses_flagged(s0, c) /\ first_move_unsafe(s0, c)
         THEN {[st |-> s, result |-> "RecursionError"]} ELSE {})

InitLoss ==
    \E m \in mine_mask_runs(LossShape[1], LossShape[2], LossMines) :
    \E e \in {build_game_state_tensors(LossShape[1], LossShape[2], LossMines,
                  <<LossMines, LossShape[1] * LossShape[2]>>, m)} :
        /\ x = e.x /\ y = e.y /\ num_tiles = e.num_tiles
        /\ num_mines = e.num_mines /\ MINE_RATE = e.MINE_RATE
        /\ over = e.over /\ lost = e.lost
        /\ play_initiated = e.play_initiated
        /\ update_list = e.update_list
        /\ discovery = e.discovery /\ num_discovered = e.num_discovered
        /\ flags = e.flags /\ num_flags = e.num_flags
        /\ mines = e.mines /\ numbers = e.numbers
        /\ board = e.board /\ derivative = e.derivative
        /\ op = "initialize_game_state" /\ ret = "None"
        /\ stack = <<>>

ReinitializeRuns ==
    /\ Running
    /\ \E e \in reinitialize_runs(Self) : Assign(e)
    /\ op' = "reinitialize_game_state"
    /\ stack' = stack
    /\ ret' = "None"

DiscoverTileRuns(c) ==
    /\ Running
    /\ \E out \in discover_tile_runs(Self, c) :
           /\ Assign(out.st)
           /\ ret' = out.result
    /\ op' = "discover_tile"
    /\ stack' = stack

\* the cells these sessions play on
LossCells == {<<0, 0>>, <<10, 0>>, <<11, 0>>}

NextLoss ==
    \/ \E c \in LossCells : DiscoverTileRuns(c)
    \/ \E c \in LossCells : FlagTile(c)
    \/ ReinitializeRuns

SpecLoss == InitLoss /\ [][NextLoss]_vars

(***************************************************************************)
(* C38: the mine count is stable across regeneration.  In a session        *)
(* initialized with an explicit mine count (the rate is then that count    *)
(* over num_tiles), num_mines equals that count in every state, after      *)
(* reinitialize_game_state and after first-move regenerations included.    *)
(***************************************************************************)
C38_MineCountStable ==
    MINE_RATE[2] = num_tiles => num_mines = MINE_RATE[1]
====
